---- MODULE Spec2Model ----
(***************************************************************************)
(* Model of the WS class of custom-socket (src/ws.ts) and of               *)
(* createConnection (mod.ts): the connection's ready state, the outbound   *)
(* queue of frames with their deferreds, the read loop of init() and the   *)
(* public operations send, ping and close.                                 *)
(*                                                                         *)
(* The program is single threaded: every handler runs to its next await.   *)
(* One action is one such run.  The transport (Deno.Conn behind a          *)
(* BufReader and a BufWriter) is the environment: it settles the pending   *)
(* readFrame promise of the read loop and the pending writeFrame promise   *)
(* of the queue.                                                           *)
(***************************************************************************)
EXTENDS Integers, Sequences, FiniteSets, TLC

\* ------------------------------------------------------------------ bounds
MaxCalls == 2
MaxReads == 3

\* --------------------------------------------------------------- constants
\* readyState values (ws.ts:27)
CONNECTING == 0
OPEN == 1
CLOSING == 2
CLOSED == 3

\* the default code of close() (ws.ts:228)
DefaultCloseCode == 100

\* U+FFFD, what TextDecoder yields for a byte that is not valid UTF-8
ReplacementChar == 65533

VARIABLES
    readyState,     \* WS.readyState
    isClosed,       \* WS._isClosed
    installed,      \* TRUE once reader, writer, mask and conn are assigned
    conn,           \* the transport: "none", "open" or "closed"
    connCloseCalls, \* number of calls of conn.close()
    queue,          \* WS.queue: entries [id, frame]
    deferred,       \* deferred[id]: state of the entry's Deferred d
    enqueued,       \* every entry ever pushed: [frame, by, at], at being
                    \* readyState when the handler that pushed it started
    inflight,       \* ids of the entries whose writeFrame is pending
    written,        \* ids in the order they were handed to writeFrame
    removed,        \* ids in the order queue.shift() removed them
    frames,         \* init's local `frames`
    payloadsLength, \* init's local `payloadsLength`
    pcInit,         \* where init() stands
    loopExits,      \* number of times init() left its read loop
    awaiting,       \* suspended `await`s: [who, d, code, data]
    events,         \* the events dispatched so far, in order
    calls,          \* number of send/ping/close calls made by the user
    reads,          \* number of frames/failures delivered by readFrame
    received,       \* the frames readFrame resolved with, in order
    step            \* the handler that ran last and what it returned

vars == <<readyState, isClosed, installed, conn, connCloseCalls, queue,
          deferred, enqueued, inflight, written, removed, frames,
          payloadsLength, pcInit, loopExits, awaiting, events, calls, reads,
          received, step>>

\* ------------------------------------------------------------ text codec
\* TextDecoder.decode on the bytes the model uses: an ASCII byte is its own
\* code point, any other byte is malformed and becomes U+FFFD.
DecodeByte(b) == IF b < 128 THEN b ELSE ReplacementChar

Decode(bytes) == [i \in 1..Len(bytes) |-> DecodeByte(bytes[i])]

\* TextEncoder.encode: an ASCII code point is one byte, U+FFFD is EF BF BD.
EncodeChar(c) == IF c < 128 THEN <<c>> ELSE <<239, 191, 189>>

RECURSIVE Encode(_)
Encode(text) ==
    IF text = <<>> THEN <<>> ELSE EncodeChar(Head(text)) \o Encode(Tail(text))

\* ---------------------------------------------------------------- inputs
\* Frames the peer may send (what readFrame resolves with).  The payloads
\* differ by opcode, so that the order of the fragments shows in a message;
\* 200 and 255 are bytes that are not valid UTF-8.
DataFrames ==
    {[opcode |-> "TextFrame", payload |-> <<97>>, isLastFrame |-> fin] :
        fin \in BOOLEAN}
    \cup {[opcode |-> "BinaryFrame", payload |-> <<200>>, isLastFrame |-> fin] :
        fin \in BOOLEAN}
    \cup {[opcode |-> "Continue", payload |-> <<98, 99>>, isLastFrame |-> fin] :
        fin \in BOOLEAN}

ClosePayloads == {<<>>, <<3, 232>>, <<3, 232, 98, 255>>}

ControlFrames ==
    [opcode : {"Close"}, payload : ClosePayloads, isLastFrame : {TRUE}]
    \cup [opcode : {"Ping", "Pong"}, payload : {<<1, 2>>}, isLastFrame : {TRUE}]

InFrames == DataFrames \cup ControlFrames

\* Arguments of send and ping: a string (its code points) or a Uint8Array.
Messages ==
    {[isString |-> TRUE, data |-> <<97>>], [isString |-> FALSE, data |-> <<7>>]}

\* Arguments of close: code (DefaultCloseCode when omitted) and reason
\* (<<>> when omitted or empty).
CloseArgs ==
    {[code |-> DefaultCloseCode, reason |-> <<>>],
     [code |-> 1000, reason |-> <<98>>]}

\* ---------------------------------------------------------------- helpers
\* this.mask as a frame gets it: undefined until init() has assigned it.
Mask == IF installed THEN "clientMask" ELSE "undefined"

\* code >>> 8 and code & 0x00ff, stored in a Uint8Array
Header(code) == <<(code \div 256) % 256, code % 256>>

\* payload[i], read as a number by << and |: undefined counts as 0
ByteAt(payload, i) == IF i <= Len(payload) THEN payload[i] ELSE 0

CloseCode(payload) == ByteAt(payload, 1) * 256 + ByteAt(payload, 2)

CloseReason(payload) ==
    Decode(IF Len(payload) > 2 THEN SubSeq(payload, 3, Len(payload)) ELSE <<>>)

\* the payload close(code, reason) builds
ClosePayload(code, reason) ==
    IF reason # <<>> THEN Header(code) \o Encode(reason) ELSE Header(code)

CloseFrame(code, reason) ==
    [opcode |-> "Close", payload |-> ClosePayload(code, reason),
     isLastFrame |-> TRUE, mask |-> Mask]

SendFrame(m) ==
    [opcode |-> IF m.isString THEN "TextFrame" ELSE "BinaryFrame",
     payload |-> IF m.isString THEN Encode(m.data) ELSE m.data,
     isLastFrame |-> TRUE, mask |-> Mask]

PingFrame(m) ==
    [opcode |-> "Ping",
     payload |-> IF m.isString THEN Encode(m.data) ELSE m.data,
     isLastFrame |-> TRUE, mask |-> Mask]

\* the automatic reply to a Ping: built without a mask
PongFrame(f) ==
    [opcode |-> "Pong", payload |-> f.payload, isLastFrame |-> TRUE,
     mask |-> "undefined"]

Ev(type, kind, code, data) ==
    [type |-> type, kind |-> kind, code |-> code, data |-> data]

\* A loop that copies the last frame's payload first.
RECURSIVE ConcatReversed(_)
ConcatReversed(fs) ==
    IF fs = <<>> THEN <<>> ELSE ConcatReversed(Tail(fs)) \o Head(fs).payload

\* the payloads of fs, each set at the offset the loop has reached
RECURSIVE Concat(_)
Concat(fs) == IF fs = <<>> THEN <<>> ELSE Head(fs).payload \o Concat(Tail(fs))

\* concat.set throws a RangeError when a payload ends beyond the array
ConcatFits(fs, len) == Len(Concat(fs)) <= len

\* `concat`: new Uint8Array(len), zero-filled, with the payloads of fs set
ConcatInto(fs, len) ==
    [k \in 1..len |-> IF k <= Len(Concat(fs)) THEN Concat(fs)[k] ELSE 0]

\* the message event dispatched for the buffered frames fs, len being
\* payloadsLength
MessageEvent(fs, len) ==
    IF fs[1].opcode = "TextFrame"
    THEN Ev("message", "text", 0, Decode(ConcatInto(fs, len)))
    ELSE Ev("message", "binary", 0, ConcatInto(fs, len))

\* ------------------------------------------------------------------ queue
NextId == Len(enqueued) + 1

\* A dequeue() that writes the newest entry, whatever the closed flag says.
DequeueNewest(q, closed) ==
    IF q = <<>> THEN <<>> ELSE <<q[Len(q)].id>>

\* A dequeue() that returns early when the socket is closed, not when it is
\* open.
DequeueWhileOpen(q, closed) ==
    IF q = <<>> \/ closed THEN <<>> ELSE <<q[1].id>>

\* dequeue(): the ids whose writeFrame it starts, for queue q and flag closed
Dequeue(q, closed) ==
    IF q = <<>> \/ ~closed THEN <<>> ELSE <<q[1].id>>

\* An enqueue() without its test of the closed flag.
EnqueueNeverThrows == FALSE

\* enqueue() throws instead of pushing
EnqueueThrows == isClosed

\* enqueue(frame) when it does not throw: push, then dequeue() if the entry
\* is the only one
Enqueue(frame, by) ==
    LET q == Append(queue, [id |-> NextId, frame |-> frame])
        started == IF Len(q) = 1 THEN Dequeue(q, isClosed) ELSE <<>>
    IN  /\ queue' = q
        /\ enqueued' = Append(enqueued, [frame |-> frame, by |-> by, at |-> readyState])
        /\ deferred' = Append(deferred, "pending")
        /\ inflight' = inflight \cup {started[i] : i \in 1..Len(started)}
        /\ written' = written \o started
        /\ removed' = removed

NoEnqueue == UNCHANGED <<queue, enqueued, deferred, inflight, written, removed>>

\* ----------------------------------------------------------- ensureClosed
\* this.conn.close() throws when this.conn is still undefined or the
\* connection has been closed before
ConnCloseThrows == ~installed \/ conn # "open"

EnsureClosedEvents ==
    (IF ConnCloseThrows THEN <<Ev("error", "exception", 0, <<>>)>> ELSE <<>>)
    \o <<Ev("close", "none", 0, <<>>)>>

\* An ensureClosed() that sets the flag and leaves readyState alone.
EnsureClosedFlagOnly ==
    /\ connCloseCalls' = IF installed THEN connCloseCalls + 1 ELSE connCloseCalls
    /\ conn' = IF installed /\ conn = "open" THEN "closed" ELSE conn
    /\ isClosed' = TRUE
    /\ readyState' = readyState

\* ensureClosed(), except for the events it dispatches
EnsureClosed ==
    /\ connCloseCalls' = IF installed THEN connCloseCalls + 1 ELSE connCloseCalls
    /\ conn' = IF installed /\ conn = "open" THEN "closed" ELSE conn
    /\ isClosed' = TRUE
    /\ readyState' = CLOSED

NoEnsureClosed == UNCHANGED <<connCloseCalls, conn, isClosed, readyState>>

\* ------------------------------------------------------------------- init
Init ==
    /\ readyState = CONNECTING
    /\ isClosed = FALSE
    /\ installed = FALSE
    /\ conn = "none"
    /\ connCloseCalls = 0
    /\ queue = <<>>
    /\ deferred = <<>>
    /\ enqueued = <<>>
    /\ inflight = {}
    /\ written = <<>>
    /\ removed = <<>>
    /\ frames = <<>>
    /\ payloadsLength = 0
    /\ pcInit = "connecting"
    /\ loopExits = 0
    /\ awaiting = {}
    /\ events = <<>>
    /\ calls = 0
    /\ reads = 0
    /\ received = <<>>
    /\ step = [op |-> "new", result |-> "ok"]

\* `while(!this._isClosed)`: where init() stands after an iteration
LoopTest(closed) == IF closed THEN "done" ELSE "reading"

LoopExit(pc) == IF pc \in {"done", "crashed"} THEN 1 ELSE 0

\* What an `open` listener does while the event is dispatched.
OpenHandlers == {"none", "send"}

\* createConnection: Deno.connect / Deno.connectTls resolved, the handshake
\* is sent.
TransportOpened ==
    /\ pcInit = "connecting"
    /\ pcInit' = "handshake"
    /\ conn' = "open"
    /\ step' = [op |-> "transportOpened", result |-> "ok"]
    /\ NoEnqueue
    /\ UNCHANGED <<readyState, isClosed, installed, connCloseCalls, frames,
                   payloadsLength, loopExits, awaiting, events, calls, reads,
                   received>>

\* createConnection resolved (or a Connection was passed): init() runs from
\* its first line to the first readFrame.
Connected ==
    /\ pcInit = "handshake"
    /\ \E h \in OpenHandlers :
        /\ h = "send" => calls < MaxCalls
        /\ IF h = "send" /\ ~EnqueueThrows
           THEN \E m \in Messages : Enqueue(SendFrame(m), "send")
           ELSE NoEnqueue
        /\ calls' = IF h = "send" THEN calls + 1 ELSE calls
        /\ step' = [op |-> "connected", result |-> h]
    /\ readyState' = OPEN
    /\ events' = Append(events, Ev("open", "none", 0, <<>>))
    /\ installed' = TRUE
    /\ pcInit' = LoopTest(isClosed)
    /\ loopExits' = loopExits + LoopExit(pcInit')
    /\ UNCHANGED <<isClosed, conn, connCloseCalls, frames, payloadsLength,
                   awaiting, reads, received>>

\* Why createConnection may throw: the URL's protocol is unknown or connect
\* fails (no transport yet), or the handshake fails.
ConnectFailures ==
    IF pcInit = "connecting" THEN {"protocol", "connect"} ELSE {"handshake"}

\* A createConnection whose catch rethrows without conn.close().
ConnectFailedLeaks ==
    /\ pcInit \in {"connecting", "handshake"}
    /\ \E why \in ConnectFailures :
        step' = [op |-> "connectFailed", result |-> why]
    /\ pcInit' = "failed"
    /\ NoEnqueue
    /\ UNCHANGED <<readyState, isClosed, installed, conn, connCloseCalls,
                   frames, payloadsLength, loopExits, awaiting, events, calls,
                   reads, received>>

\* createConnection threw: init() ends with that exception.
ConnectFailed ==
    /\ pcInit \in {"connecting", "handshake"}
    /\ \E why \in ConnectFailures :
        /\ conn' = IF why = "handshake" THEN "closed" ELSE conn
        /\ connCloseCalls' =
               IF why = "handshake" THEN connCloseCalls + 1 ELSE connCloseCalls
        /\ step' = [op |-> "connectFailed", result |-> why]
    /\ pcInit' = "failed"
    /\ NoEnqueue
    /\ UNCHANGED <<readyState, isClosed, installed, frames, payloadsLength,
                   loopExits, awaiting, events, calls, reads,
                   received>>

\* ------------------------------------------------------- public operations
Send ==
    /\ calls < MaxCalls
    /\ calls' = calls + 1
    /\ \E m \in Messages :
        IF EnqueueThrows
        THEN NoEnqueue /\ step' = [op |-> "send", result |-> "ConnectionReset"]
        ELSE Enqueue(SendFrame(m), "send")
             /\ step' = [op |-> "send", result |-> "pending"]
    /\ NoEnsureClosed
    /\ UNCHANGED <<installed, frames, payloadsLength, pcInit, loopExits,
                   awaiting, events, reads,
                   received>>

Ping ==
    /\ calls < MaxCalls
    /\ calls' = calls + 1
    /\ \E m \in Messages :
        IF EnqueueThrows
        THEN NoEnqueue /\ step' = [op |-> "ping", result |-> "ConnectionReset"]
        ELSE Enqueue(PingFrame(m), "ping")
             /\ step' = [op |-> "ping", result |-> "pending"]
    /\ NoEnsureClosed
    /\ UNCHANGED <<installed, frames, payloadsLength, pcInit, loopExits,
                   awaiting, events, reads,
                   received>>

\* close(code, reason) up to its `await this.enqueue(...)`
Close ==
    /\ calls < MaxCalls
    /\ calls' = calls + 1
    /\ \E a \in CloseArgs :
        IF isClosed
        THEN /\ NoEnqueue
             /\ awaiting' = awaiting
             /\ step' = [op |-> "close", result |-> "returned"]
        ELSE /\ Enqueue(CloseFrame(a.code, a.reason), "close")
             /\ awaiting' = awaiting \cup
                    {[who |-> "close", d |-> NextId, code |-> a.code,
                      data |-> a.reason]}
             /\ step' = [op |-> "close", result |-> "pending"]
    /\ NoEnsureClosed
    /\ UNCHANGED <<installed, frames, payloadsLength, pcInit, loopExits,
                   events, reads,
                   received>>

\* --------------------------------------------------------------- read loop
IsData(f) == f.opcode \in {"TextFrame", "BinaryFrame", "Continue"}

\* readFrame resolved with f: one iteration of the loop of init(), up to its
\* next await.
OnFrame(f) ==
    /\ reads' = reads + 1
    /\ received' = Append(received, f)
    /\ step' = [op |-> "frame", result |-> f.opcode]
    /\ UNCHANGED <<isClosed, installed, conn, connCloseCalls, calls>>
    /\ CASE IsData(f) ->
              LET fs == Append(frames, f)
                  len == payloadsLength + Len(f.payload) IN
              /\ CASE f.isLastFrame /\ ConcatFits(fs, len) ->
                        /\ events' = Append(events, MessageEvent(fs, len))
                        /\ frames' = <<>>
                        /\ payloadsLength' = 0
                        /\ pcInit' = LoopTest(isClosed)
                   [] f.isLastFrame /\ ~ConcatFits(fs, len) ->
                        /\ events' = events
                        /\ frames' = fs
                        /\ payloadsLength' = len
                        /\ pcInit' = "crashed"
                   [] OTHER ->
                        /\ events' = events
                        /\ frames' = fs
                        /\ payloadsLength' = len
                        /\ pcInit' = LoopTest(isClosed)
              /\ NoEnqueue
              /\ UNCHANGED <<readyState, awaiting>>
         [] f.opcode = "Close" ->
              LET code == CloseCode(f.payload)
                  reason == CloseReason(f.payload) IN
              /\ readyState' = CLOSING
              /\ IF isClosed
                 THEN /\ NoEnqueue
                      /\ awaiting' = awaiting
                      /\ events' =
                             Append(events, Ev("error", "closeInfo", code, reason))
                      /\ pcInit' = "done"
                 ELSE /\ Enqueue(CloseFrame(code, reason), "close")
                      /\ awaiting' = awaiting \cup
                             {[who |-> "initClose", d |-> NextId,
                               code |-> code, data |-> reason]}
                      /\ events' = events
                      /\ pcInit' = "awaitClose"
              /\ UNCHANGED <<frames, payloadsLength>>
         [] f.opcode = "Ping" ->
              /\ IF EnqueueThrows
                 THEN /\ NoEnqueue
                      /\ awaiting' = awaiting
                      /\ pcInit' = "crashed"
                 ELSE /\ Enqueue(PongFrame(f), "pong")
                      /\ awaiting' = awaiting \cup
                             {[who |-> "initPong", d |-> NextId, code |-> 0,
                               data |-> f.payload]}
                      /\ pcInit' = "awaitPong"
              /\ UNCHANGED <<readyState, events, frames, payloadsLength>>
         [] f.opcode = "Pong" ->
              /\ events' = Append(events, Ev("pong", "binary", 0, f.payload))
              /\ pcInit' = LoopTest(isClosed)
              /\ NoEnqueue
              /\ UNCHANGED <<readyState, awaiting, frames, payloadsLength>>
    /\ loopExits' = loopExits + LoopExit(pcInit')

\* A catch that starts the close handshake with close() instead of calling
\* ensureClosed().
OnReadErrorCloses ==
    /\ reads' = reads + 1
    /\ step' = [op |-> "readError", result |-> "closed"]
    /\ Enqueue(CloseFrame(DefaultCloseCode, <<>>), "close")
    /\ awaiting' = awaiting \cup
           {[who |-> "initClose", d |-> NextId, code |-> DefaultCloseCode,
             data |-> <<>>]}
    /\ pcInit' = "awaitClose"
    /\ NoEnsureClosed
    /\ UNCHANGED <<installed, frames, payloadsLength, loopExits, events, calls,
                   received>>

\* readFrame rejected: the catch of the loop
OnReadError ==
    /\ reads' = reads + 1
    /\ step' = [op |-> "readError", result |-> "closed"]
    /\ EnsureClosed
    /\ events' = events \o EnsureClosedEvents
    /\ pcInit' = "done"
    /\ loopExits' = loopExits + 1
    /\ NoEnqueue
    /\ UNCHANGED <<installed, frames, payloadsLength, awaiting, calls,
                   received>>

\* ------------------------------------------------------------ write settled
\* writeFrame of entry id settled: d.resolve / d.reject, the code awaiting d
\* (the rest of close(), then the rest of init()), then the finally callback
\* of dequeue(): queue.shift() and dequeue().
OnWriteSettled(id, ok) ==
    LET w == {a \in awaiting : a.d = id}
        who == IF w = {} THEN "none" ELSE (CHOOSE a \in w : TRUE).who
        a == IF w = {} THEN [code |-> 0, data |-> <<>>] ELSE CHOOSE x \in w : TRUE
        runsEnsureClosed == who \in {"close", "initClose"}
        closed == isClosed \/ runsEnsureClosed
        q == Tail(queue)
        started == Dequeue(q, closed)
    IN  /\ deferred' = [deferred EXCEPT ![id] = IF ok THEN "resolved" ELSE "rejected"]
        /\ awaiting' = awaiting \ w
        /\ IF runsEnsureClosed THEN EnsureClosed ELSE NoEnsureClosed
        /\ events' = events
               \o (IF runsEnsureClosed THEN EnsureClosedEvents ELSE <<>>)
               \o (IF who = "initClose" /\ ok
                   THEN <<Ev("error", "closeInfo", a.code, a.data)>> ELSE <<>>)
               \o (IF who = "initPong" /\ ok
                   THEN <<Ev("ping", "binary", 0, a.data)>> ELSE <<>>)
        /\ pcInit' = CASE who \in {"initClose", "initPong"} /\ ~ok -> "crashed"
                       [] who = "initClose" /\ ok -> "done"
                       [] who = "initPong" /\ ok -> LoopTest(isClosed)
                       [] OTHER -> pcInit
        /\ loopExits' =
               IF who \in {"initClose", "initPong"}
               THEN loopExits + LoopExit(pcInit') ELSE loopExits
        /\ queue' = q
        /\ removed' = Append(removed, queue[1].id)
        /\ inflight' = (inflight \ {id}) \cup {started[i] : i \in 1..Len(started)}
        /\ written' = written \o started
        /\ step' = [op |-> "writeSettled",
                    result |-> IF ok THEN "resolved" ELSE "rejected"]
        /\ UNCHANGED <<installed, enqueued, frames, payloadsLength, calls, reads,
                   received>>

\* -------------------------------------------------------------- transport
\* The promises the transport has yet to settle: the readFrame of the loop
\* (ReadIO) and the writeFrame of each entry being written (its id).
ReadIO == 0

PendingIO ==
    (IF pcInit = "reading" /\ reads < MaxReads THEN {ReadIO} ELSE {})
    \cup inflight

\* The transport completes a pending operation.
IOResolves ==
    \E io \in PendingIO :
        IF io = ReadIO THEN \E f \in InFrames : OnFrame(f)
        ELSE OnWriteSettled(io, TRUE)

\* The transport fails a pending operation.
IORejects ==
    \E io \in PendingIO :
        IF io = ReadIO THEN OnReadError ELSE OnWriteSettled(io, FALSE)

Next ==
    \/ TransportOpened
    \/ Connected
    \/ ConnectFailed
    \/ Send
    \/ Ping
    \/ Close
    \/ IOResolves
    \/ IORejects

Spec == Init /\ [][Next]_vars

\* Transport writes complete: a pending writeFrame is settled eventually.
\* Nothing obliges the peer to send a frame or the user to call anything.
WriteSettles == \E id \in inflight : \E ok \in BOOLEAN : OnWriteSettled(id, ok)

FairSpec == Spec /\ WF_vars(WriteSettles)

\* ================================================================= claims
Range(s) == {s[i] : i \in 1..Len(s)}

EventCount(type) == Cardinality({i \in 1..Len(events) : events[i].type = type})

CloseFramesEnqueuedWhileOpen ==
    {i \in 1..Len(enqueued) : enqueued[i].by = "close" /\ enqueued[i].at = OPEN}

C3_EnqueueStartsWrite ==
    [][(readyState = OPEN /\ queue = <<>> /\ queue' # <<>>)
        => (queue'[1].id \in inflight'
            /\ written' = Append(written, queue'[1].id))]_vars

\* C4: on a Closed socket a send or ping call fails with ConnectionReset and
\* leaves the queue, the transport and readyState as they were.
C4_ClosedRejectsSend ==
    [][(readyState = CLOSED /\ calls' = calls + 1
        /\ step'.op \in {"send", "ping"})
        => (/\ step'.result = "ConnectionReset"
            /\ UNCHANGED <<queue, enqueued, deferred, inflight, written,
                           readyState, conn, connCloseCalls>>)]_vars

\* A send was made on a Closed socket.
C4_Witness ==
    /\ readyState = CLOSED
    /\ step.op = "send"
    /\ step.result = "ConnectionReset"

\* C5: however many times close() is called on an open socket, one Close
\* frame is enqueued.
C5_OneCloseFrame == Cardinality(CloseFramesEnqueuedWhileOpen) <= 1

\* C6: a close() call made on an open socket leads to readyState Closed with
\* the transport closed.
C6_CloseEndsClosed ==
    (readyState = OPEN /\ \E a \in awaiting : a.who = "close")
        ~> (readyState = CLOSED /\ conn = "closed")

\* C7: a Close frame received while Open leads to the echo being written,
\* readyState Closed, the transport closed, and a close then an error event
\* with the code and the reason of the frame.
C7_ReceivedCloseCompletes ==
    (pcInit = "awaitClose")
        ~> (/\ readyState = CLOSED
            /\ conn = "closed"
            /\ written # <<>>
            /\ Len(events) >= 2
            /\ events[Len(events) - 1].type = "close"
            /\ events[Len(events)].kind = "closeInfo")

\* C8: conn.close() is called at most once, the read loop ends at most once,
\* and both have happened exactly once on a socket that is Closed.
C8_TransportClosedOnce ==
    /\ connCloseCalls <= 1
    /\ loopExits <= 1
    /\ readyState = CLOSED =>
           connCloseCalls = 1 /\ conn = "closed" /\ loopExits = 1

\* A read failure closed a socket on which a close() call is pending.
C8_Witness ==
    /\ readyState = CLOSED
    /\ \E a \in awaiting : a.who = "close"
    /\ connCloseCalls = 1
    /\ loopExits = 1

\* C9: a failed read on an open socket closes the transport, sets readyState
\* to Closed, dispatches one close event and ends the read loop; no frame is
\* enqueued or written.
C9_ReadFailureClosesAbruptly ==
    [][(readyState = OPEN /\ reads' = reads + 1 /\ step'.op = "readError")
        => (/\ readyState' = CLOSED
            /\ isClosed'
            /\ conn' = "closed"
            /\ connCloseCalls' = connCloseCalls + 1
            /\ events' = Append(events, Ev("close", "none", 0, <<>>))
            /\ pcInit' = "done"
            /\ loopExits' = loopExits + 1
            /\ UNCHANGED <<queue, enqueued, inflight, written>>)]_vars

\* A read failed on an open socket.
C9_Witness ==
    /\ step.op = "readError"
    /\ readyState = CLOSED
    /\ EventCount("close") = 1
    /\ EventCount("open") = 1

\* C10: no step lowers readyState, and Closed is final.
C10_ReadyStateMonotone ==
    [][/\ readyState' >= readyState
       /\ readyState = CLOSED => readyState' = CLOSED]_vars

\* A socket that went from Connecting to Open to Closed, with frames read and
\* calls made on the way and after.
C10_Witness ==
    /\ readyState = CLOSED
    /\ reads >= 2
    /\ calls >= 1
    /\ step.op \in {"send", "ping", "close"}

\* A socket that a received Close frame left in Closing.
C10_WitnessClosing ==
    /\ readyState = CLOSING
    /\ pcInit = "awaitClose"

\* The data frames among the frames r.
RECURSIVE DataOf(_)
DataOf(r) ==
    IF r = <<>> THEN <<>>
    ELSE IF IsData(Head(r)) THEN <<Head(r)>> \o DataOf(Tail(r))
    ELSE DataOf(Tail(r))

\* The fragments of the message that the last of the data frames ds belongs
\* to: those after the last earlier frame that had fin set.
RECURSIVE LastFragments(_)
LastFragments(ds) ==
    IF Len(ds) <= 1 THEN ds
    ELSE IF ds[Len(ds) - 1].isLastFrame THEN <<ds[Len(ds)]>>
    ELSE Append(LastFragments(SubSeq(ds, 1, Len(ds) - 1)), ds[Len(ds)])

\* The bytes of the fragments fs, the last fragment's last.
RECURSIVE Joined(_)
Joined(fs) ==
    IF fs = <<>> THEN <<>>
    ELSE Joined(SubSeq(fs, 1, Len(fs) - 1)) \o fs[Len(fs)].payload

\* The message the fragments fs make: text when the first is a Text frame.
MessageOf(fs) ==
    [type |-> "message",
     kind |-> IF fs[1].opcode = "TextFrame" THEN "text" ELSE "binary",
     code |-> 0,
     data |-> IF fs[1].opcode = "TextFrame"
              THEN [i \in 1..Len(Joined(fs)) |->
                       IF Joined(fs)[i] < 128 THEN Joined(fs)[i]
                       ELSE ReplacementChar]
              ELSE Joined(fs)]

\* C14: a data frame without fin delivers nothing; a data frame with fin
\* delivers one message event made of the payloads of the frames received
\* since the previous fin, in arrival order, text when the first of them was
\* a Text frame, and leaves the buffer empty and its length zero.
C14_FragmentsReassembled ==
    [][(reads' = reads + 1 /\ step'.op = "frame"
        /\ IsData(received'[Len(received')]))
        => IF received'[Len(received')].isLastFrame
           THEN /\ events' =
                       Append(events, MessageOf(LastFragments(DataOf(received'))))
                /\ frames' = <<>>
                /\ payloadsLength' = 0
           ELSE /\ events' = events
                /\ frames' = LastFragments(DataOf(received'))]_vars

\* Three fragments, the first a Text frame, were delivered as one text
\* message.
C14_Witness ==
    /\ Len(received) = 3
    /\ received[1].opcode = "TextFrame" /\ ~received[1].isLastFrame
    /\ received[2].opcode = "Continue" /\ ~received[2].isLastFrame
    /\ received[3].opcode = "Continue" /\ received[3].isLastFrame
    /\ EventCount("message") = 1
    /\ events[Len(events)] = Ev("message", "text", 0, <<97, 98, 99, 98, 99>>)
    /\ frames = <<>>
    /\ payloadsLength = 0

PongsEnqueued == {i \in 1..Len(enqueued) : enqueued[i].by = "pong"}

\* C11: a Pong is enqueued only after the ping event with the same payload
\* has been dispatched.
C11_PingNotifiedThenPong ==
    \A i \in PongsEnqueued :
        \E k \in 1..Len(events) :
            /\ events[k].type = "ping"
            /\ events[k].data = enqueued[i].frame.payload

\* C12: while the socket is Open the read loop waits for the transport read
\* and for nothing else.
C12_ReadLoopWaitsOnReadOnly == readyState = OPEN => pcInit = "reading"

\* C13: every frame enqueued on an open socket carries the client mask.
C13_EveryFrameMasked ==
    \A i \in 1..Len(enqueued) :
        enqueued[i].at = OPEN => enqueued[i].frame.mask = "clientMask"

\* C15: a Continuation frame with no message in progress, and a Text or
\* Binary frame with a message in progress, delivers no message event and
\* closes the socket abruptly.
C15_ProtocolViolationCloses ==
    [][(/\ reads' = reads + 1
        /\ step'.op = "frame"
        /\ \/ received'[Len(received')].opcode = "Continue" /\ frames = <<>>
           \/ /\ received'[Len(received')].opcode \in {"TextFrame", "BinaryFrame"}
              /\ frames # <<>>)
        => (/\ EventCount("message")' = EventCount("message")
            /\ readyState' = CLOSED
            /\ conn' = "closed")]_vars

\* C16: close() without a code, on an open socket, enqueues a Close frame
\* whose payload is two bytes, the big-endian encoding of a code from 1000
\* to 1999.
C16_DefaultCloseCodeInRange ==
    [][(/\ readyState = OPEN
        /\ calls' = calls + 1
        /\ step'.op = "close"
        /\ step'.result = "pending"
        /\ \E a \in awaiting' \ awaiting :
               a.code = DefaultCloseCode /\ a.data = <<>>)
        => LET p == enqueued'[Len(enqueued')].frame.payload IN
           /\ enqueued'[Len(enqueued')].frame.opcode = "Close"
           /\ Len(p) = 2
           /\ p[1] * 256 + p[2] \in 1000..1999]_vars

C17_WitnessProtocol ==
    /\ pcInit = "failed"
    /\ step = [op |-> "connectFailed", result |-> "protocol"]
    /\ conn = "none"

\* C19: the closed flag is set exactly when readyState is Closed, and no
\* step changes readyState while the flag is set.
C19_ClosedFlagIffClosed ==
    [][/\ isClosed <=> readyState = CLOSED
       /\ isClosed' <=> readyState' = CLOSED
       /\ isClosed => readyState' = readyState]_vars

\* close() was called on a socket whose flag was set: it returned at once.
C19_Witness ==
    /\ isClosed
    /\ readyState = CLOSED
    /\ step = [op |-> "close", result |-> "returned"]

\* C20: a send made by an open listener is enqueued with the client mask.
C20_OpenHandlerSendMasked ==
    (step = [op |-> "connected", result |-> "send"] /\ enqueued # <<>>)
        => (installed /\ enqueued[Len(enqueued)].frame.mask = "clientMask")

====
